---- MODULE Spec2Model ----
(***************************************************************************)
(* rs-pod: the credential lifecycle of src/api/oauth.rs                    *)
(* (SpotifyOAuth::get_spotify_access_token and authorize_spotify) as a     *)
(* state machine.  One behaviour is one call of get_spotify_access_token   *)
(* against a credential file left by earlier runs, a token endpoint that   *)
(* answers each request in one of a few ways, and browsers that send       *)
(* requests to the redirect listener.                                      *)
(*                                                                         *)
(* Spec and FairSpec follow that call step by step.  AppSpec is the        *)
(* session of src/app.rs (pages, key handlers, timer-driven poll) on top   *)
(* of the client of src/api/spotify.rs; MainSpec is the one-page program   *)
(* of src/main.rs with its album art.  Both see the credential lifecycle   *)
(* as one call that returns a token or an error.                           *)
(***************************************************************************)
EXTENDS Integers, Sequences, FiniteSets, TLC

\* How many requests reach the redirect listener during one attempt.
MaxRequests == 3

(***************************************************************************)
(* Values                                                                  *)
(***************************************************************************)
\* Option<T>
None == [t |-> "none"]
Some(x) == [t |-> "some", v |-> x]

\* Result<T, Box<dyn Error>>; NoResult while the call has not returned.
NoResult == [t |-> "running"]
Ok(x) == [t |-> "ok", v |-> x]
Err(e) == [t |-> "err", e |-> e]

\* JSON values
JStr(s) == [t |-> "str", v |-> s]
JNum(n) == [t |-> "num", v |-> n]
JNull == [t |-> "null"]

AccessTokens == {"T1", "T2"}
RefreshTokens == {"R1", "R2"}
\* the anti-forgery tokens rand can produce (16 alphanumerics in the code)
StateTokens == {"s1", "s2"}

\* JSON texts: an object (a function from its keys to JSON values), closed
\* or cut short before its closing brace; text that is no JSON; no text.
Object(o) == [j |-> "object", o |-> o, closed |-> TRUE]
Garbage == [j |-> "garbage"]
Empty == [j |-> "empty"]

\* The order serde writes the fields of TokenResponse in.
FieldOrder == <<"access_token", "token_type", "expires_in", "refresh_token">>
NFields == Len(FieldOrder)

\* struct TokenResponse
TokenResponse(a, r) ==
    [access_token |-> a, token_type |-> "Bearer", expires_in |-> 3600,
     refresh_token |-> r]

\* A bug to_string_pretty could have: a field is skipped when serializing.
to_string_pretty_skipping(tok) ==
    Object([access_token |-> JStr(tok.access_token),
            token_type |-> JStr(tok.token_type),
            expires_in |-> JNum(tok.expires_in)])

\* serde_json::to_string_pretty(&TokenResponse): all four fields, a None
\* refresh_token written as null.
to_string_pretty(tok) ==
    Object([access_token |-> JStr(tok.access_token),
            token_type |-> JStr(tok.token_type),
            expires_in |-> JNum(tok.expires_in),
            refresh_token |-> IF tok.refresh_token = None
                              THEN JNull
                              ELSE JStr(tok.refresh_token.v)])

\* The first n fields of a pretty-printed record, the closing brace missing:
\* what a write_all that stopped part-way leaves on disk.
Truncated(text, n) ==
    IF n = 0 THEN Empty
    ELSE [j |-> "object",
          o |-> [k \in {FieldOrder[i] : i \in 1..n} |-> text.o[k]],
          closed |-> FALSE]

HasType(o, k, ty) == k \in DOMAIN o /\ o[k].t = ty

\* Deserialize for TokenResponse: access_token and token_type strings,
\* expires_in a u64, refresh_token a string, null or missing; unknown keys
\* are ignored.
Decodable(text) ==
    /\ text.j = "object"
    /\ text.closed
    /\ HasType(text.o, "access_token", "str")
    /\ HasType(text.o, "token_type", "str")
    /\ HasType(text.o, "expires_in", "num")
    /\ text.o["expires_in"].v >= 0
    /\ "refresh_token" \in DOMAIN text.o
           => text.o["refresh_token"].t \in {"str", "null"}

\* serde_json::from_str::<TokenResponse> and Response::json::<TokenResponse>
from_str(text) ==
    IF Decodable(text)
    THEN Ok([access_token |-> text.o["access_token"].v,
             token_type |-> text.o["token_type"].v,
             expires_in |-> text.o["expires_in"].v,
             refresh_token |->
                 IF HasType(text.o, "refresh_token", "str")
                 THEN Some(text.o["refresh_token"].v)
                 ELSE None])
    ELSE Err("decode")

(***************************************************************************)
(* The credential file                                                     *)
(***************************************************************************)
Absent == [kind |-> "absent"]
\* exists, but read_to_string fails (no permission, not UTF-8)
Unreadable == [kind |-> "unreadable"]
Text(text) == [kind |-> "text", text |-> text]

\* {access_token, token_type, expires_in}: the provider left refresh_token out.
BodyWithoutRefresh(a) ==
    Object([access_token |-> JStr(a), token_type |-> JStr("Bearer"),
            expires_in |-> JNum(3600)])

\* {access_token, token_type, expires_in, refresh_token}, r a JSON value
BodyWithRefresh(a, r) ==
    Object([access_token |-> JStr(a), token_type |-> JStr("Bearer"),
            expires_in |-> JNum(3600), refresh_token |-> r])

\* What the token endpoint can put in a response body.
TokenBodies ==
    {BodyWithRefresh(a, r) :
        a \in AccessTokens, r \in {JNull} \cup {JStr(x) : x \in RefreshTokens}}
    \cup {BodyWithoutRefresh(a) : a \in AccessTokens}
ErrorBody == Object([error |-> JStr("invalid_grant")])

\* The file as earlier runs, or the user, can have left it.
InitialFiles ==
    {Absent, Unreadable, Text(Garbage), Text(Empty), Text(ErrorBody),
     Text(BodyWithRefresh("T1", JStr("R1"))),
     Text(BodyWithRefresh("T2", JStr("R2"))),
     Text(BodyWithRefresh("T1", JNull)),
     Text(BodyWithoutRefresh("T1")),
     Text(Truncated(BodyWithRefresh("T1", JStr("R1")), 2))}

(***************************************************************************)
(* The token endpoint and the browser                                      *)
(***************************************************************************)
TransportError == [kind |-> "transport_error"]
Response(status, body) == [kind |-> "response", status |-> status, body |-> body]

\* What send().await can come back with.
Responses ==
    {TransportError}
    \cup {Response(200, b) : b \in TokenBodies \cup {ErrorBody, Garbage}}
    \cup {Response(400, b) :
            b \in {ErrorBody, BodyWithRefresh("T2", JStr("R2"))}}

\* A request to the listener: request.url() is path ++ "?" ++ query, the path
\* a sequence of pieces so that "/callbackx" has "/callback" as a prefix.
Request(path, query) == [path |-> path, query |-> query]
Requests ==
    {Request(<<"/favicon.ico">>, <<>>),
     Request(<<"/callback", "x">>, <<<<"code", "xyz">>>>),
     Request(<<"/callback">>, <<<<"error", "access_denied">>, <<"state", "s1">>>>),
     Request(<<"/callback">>, <<<<"state", "s2">>, <<"code", "xyz">>>>)}
    \cup {Request(<<"/callback">>, <<<<"code", "abc123">>, <<"state", s>>>>) :
            s \in StateTokens}

(***************************************************************************)
(* State                                                                   *)
(***************************************************************************)
VARIABLES
    token_file,        \* the content of TOKEN_FILE
    pc,                \* where the call is
    result,            \* what get_spotify_access_token returned
    refresh_token,     \* token_data.refresh_token of the stored record
    pending,           \* merged_token / new_token: the record fs::write is given
    write_site,        \* which fs::write is running: "refresh" (94) or "authorize" (112)
    state,             \* the anti-forgery token of this attempt
    server,            \* the redirect listener: "none", "open", "closed"
    incoming,          \* requests received by the listener, not yet taken by the loop
    arrived,           \* how many requests have reached the listener
    code,              \* the loop's `code`
    \* what has happened so far in this call
    file_before,       \* the file when the call began
    writes,            \* calls of fs::write
    refresh_requests,  \* refresh forms posted to the token endpoint
    refresh_response,  \* the answer to the refresh request
    exchange_requests, \* authorization_code forms posted to the token endpoint
    exchange_response, \* the answer to the exchange request
    handled,           \* requests the loop took from the listener, in order
    responses,         \* confirmation pages delivered to the browser
    browser_opens,     \* calls of webbrowser::open
    auth_result        \* what authorize_spotify returned

\* The session controller, struct App of src/app.rs, and its run loop.
VARIABLES
    app_pc,            \* where main, App::new and App::run are
    access_token,      \* spotify_client.access_token, None before the client is built
    spotify_player,    \* spotify_client.spotify_player: the cached snapshot
    exit,              \* App.exit
    current_track_name,\* App.current_track_name
    current_page,      \* App.current_page
    playlists,         \* App.playlists: the ids of the cached playlists
    selected,          \* App.playlist_state.selected(), an index from 0
    elapsed,           \* last_update.elapsed() in ms, capped at update_interval
    key_event,         \* the key press the latest handle_events dispatched
    calls,             \* the remote calls the latest step made, with their answers
    since_poll,        \* ms since the latest timer-driven fetch, capped at update_interval
    album_art_image    \* App.album_art_image of src/main.rs

oauth_vars ==
    <<token_file, pc, result, refresh_token, pending, write_site, state, server,
      incoming, arrived, code, file_before, writes, refresh_requests,
      refresh_response, exchange_requests, exchange_response, handled,
      responses, browser_opens, auth_result>>

app_vars ==
    <<app_pc, access_token, spotify_player, exit, current_track_name,
      current_page, playlists, selected, elapsed, key_event, calls,
      since_poll, album_art_image>>

vars == <<oauth_vars, app_vars>>

\* impl Default for SpotifyPlayer
SpotifyPlayer_default == [is_playing |-> FALSE, item |-> None, progress_ms |-> None]

\* Before main has called App::new.
NotStarted ==
    /\ app_pc = "main"
    /\ access_token = None
    /\ spotify_player = SpotifyPlayer_default
    /\ exit = FALSE
    /\ current_track_name = None
    /\ current_page = "PlaylistList"
    /\ playlists = <<>>
    /\ selected = None
    /\ elapsed = 0
    /\ key_event = None
    /\ calls = <<>>
    /\ since_poll = 0
    /\ album_art_image = None

Init ==
    /\ token_file \in InitialFiles
    /\ file_before = token_file
    /\ pc = "idle"
    /\ result = NoResult
    /\ refresh_token = None
    /\ pending = None
    /\ write_site = "none"
    /\ state = None
    /\ server = "none"
    /\ incoming = <<>>
    /\ arrived = 0
    /\ code = None
    /\ writes = 0
    /\ refresh_requests = <<>>
    /\ refresh_response = None
    /\ exchange_requests = <<>>
    /\ exchange_response = None
    /\ handled = <<>>
    /\ responses = 0
    /\ browser_opens = 0
    /\ auth_result = None
    /\ NotStarted

\* The function returns r; authorize_spotify's `server` is dropped with it.
Return(r) ==
    /\ pc' = "done"
    /\ result' = r
    /\ server' = IF server = "open" THEN "closed" ELSE server

(***************************************************************************)
(* get_spotify_access_token, lines 58-100: the stored record and refresh   *)
(***************************************************************************)
RefreshForm(r) == [grant_type |-> "refresh_token", refresh_token |-> r]
ExchangeForm(c) == [grant_type |-> "authorization_code", code |-> c]

\* A bug the entry could have: a file that cannot be read or parsed is
\* treated like no file.
stored_record_lenient(file) ==
    IF file.kind = "absent" THEN [next |-> "authorize"]
    ELSE IF file.kind = "unreadable" THEN [next |-> "authorize"]
    ELSE LET token_data == from_str(file.text) IN
         IF token_data.t = "err" THEN [next |-> "authorize"]
         ELSE IF token_data.v.refresh_token = None THEN [next |-> "authorize"]
         ELSE [next |-> "refresh", rt |-> token_data.v.refresh_token.v]

\* Lines 62-67: what the stored record makes the call do.
\*   "authorize": no file, or a record without refresh token
\*   "refresh":   a record with refresh token rt
\*   "return":    read_to_string or from_str failed, and `?` returns
stored_record(file) ==
    IF file.kind = "absent" THEN [next |-> "authorize"]
    ELSE IF file.kind = "unreadable" THEN [next |-> "return", result |-> Err("read")]
    ELSE LET token_data == from_str(file.text) IN
         IF token_data.t = "err" THEN [next |-> "return", result |-> Err("parse")]
         ELSE IF token_data.v.refresh_token = None THEN [next |-> "authorize"]
         ELSE [next |-> "refresh", rt |-> token_data.v.refresh_token.v]

\* Entry: the file is looked at, and the refresh request is sent if it holds a
\* refresh token (lines 62-82, up to send()).
get_spotify_access_token ==
    /\ pc = "idle"
    /\ LET s == stored_record(token_file) IN
         CASE s.next = "authorize" ->
                /\ pc' = "authorize"
                /\ UNCHANGED <<result, server, refresh_token, refresh_requests>>
           [] s.next = "return" ->
                /\ Return(s.result)
                /\ UNCHANGED <<refresh_token, refresh_requests>>
           [] s.next = "refresh" ->
                /\ pc' = "refresh_wait"
                /\ refresh_token' = Some(s.rt)
                /\ refresh_requests' = Append(refresh_requests, RefreshForm(s.rt))
                /\ UNCHANGED <<result, server>>
    /\ UNCHANGED <<token_file, pending, write_site, state, incoming, arrived, code,
                   file_before, writes, refresh_response, exchange_requests,
                   exchange_response, handled, responses, browser_opens,
                   auth_result>>
    /\ UNCHANGED app_vars

\* StatusCode::is_success
is_success(status) == status \in 200..299

\* A bug the merge could have: the response is persisted as it came.
merged_token_as_received(new_token, old_refresh_token) == new_token

\* Lines 89-92: the response's fields, the refresh token the stored one.
merged_token(new_token, old_refresh_token) ==
    [new_token EXCEPT !.refresh_token = Some(old_refresh_token)]

\* A bug the refresh could have: a rejected refresh is returned as an error.
refresh_outcome_fatal(res, old_refresh_token) ==
    IF res.kind = "transport_error"
    THEN [next |-> "return", result |-> Err("refresh_transport")]
    ELSE IF is_success(res.status)
    THEN LET new_token == from_str(res.body) IN
         IF new_token.t = "err"
         THEN [next |-> "return", result |-> Err("refresh_decode")]
         ELSE [next |-> "write", token |-> merged_token(new_token.v, old_refresh_token)]
    ELSE [next |-> "return", result |-> Err("refresh_status")]

\* Lines 82-98: what the answer to the refresh request makes the call do.
refresh_outcome(res, old_refresh_token) ==
    IF res.kind = "transport_error"
    THEN [next |-> "return", result |-> Err("refresh_transport")]
    ELSE IF is_success(res.status)
    THEN LET new_token == from_str(res.body) IN
         IF new_token.t = "err"
         THEN [next |-> "return", result |-> Err("refresh_decode")]
         ELSE [next |-> "write", token |-> merged_token(new_token.v, old_refresh_token)]
    ELSE [next |-> "authorize"]

\* The token endpoint answers the refresh request, or the request fails.
refresh_answered ==
    /\ pc = "refresh_wait"
    /\ \E res \in Responses :
         /\ refresh_response' = Some(res)
         /\ LET out == refresh_outcome(res, refresh_token.v) IN
              CASE out.next = "return" ->
                     /\ Return(out.result)
                     /\ UNCHANGED <<pending, write_site>>
                [] out.next = "authorize" ->
                     /\ pc' = "authorize"
                     /\ UNCHANGED <<result, server, pending, write_site>>
                [] out.next = "write" ->
                     /\ pc' = "write_create"
                     /\ pending' = Some(out.token)
                     /\ write_site' = "refresh"
                     /\ UNCHANGED <<result, server>>
    /\ UNCHANGED <<token_file, refresh_token, state, incoming, arrived, code,
                   file_before, writes, refresh_requests, exchange_requests,
                   exchange_response, handled, responses, browser_opens,
                   auth_result>>
    /\ UNCHANGED app_vars

(***************************************************************************)
(* authorize_spotify, lines 117-184                                        *)
(***************************************************************************)
\* Lines 124-145: a fresh state token, the authorization URL opened in the
\* browser, the listener bound; Server::http(..).expect("") panics when the
\* port cannot be bound.
authorize_spotify ==
    /\ pc = "authorize"
    /\ \E s \in StateTokens, bound \in BOOLEAN :
         /\ state' = Some(s)
         /\ browser_opens' = browser_opens + 1
         /\ IF bound
            THEN pc' = "listening" /\ server' = "open"
            ELSE pc' = "panicked" /\ server' = server
    /\ UNCHANGED <<token_file, result, refresh_token, pending, write_site, incoming,
                   arrived, code, file_before, writes, refresh_requests,
                   refresh_response, exchange_requests, exchange_response,
                   handled, responses, auth_result>>
    /\ UNCHANGED app_vars

\* A browser (or anything else) sends a request to the open listener.
request_arrives ==
    /\ server = "open"
    /\ arrived < MaxRequests
    /\ \E request \in Requests : incoming' = Append(incoming, request)
    /\ arrived' = arrived + 1
    /\ UNCHANGED <<token_file, pc, result, refresh_token, pending, write_site,
                   state, server, code, file_before, writes, refresh_requests,
                   refresh_response, exchange_requests, exchange_response,
                   handled, responses, browser_opens, auth_result>>
    /\ UNCHANGED app_vars

\* str::starts_with, on sequences of pieces
starts_with(url, prefix) ==
    Len(url) >= Len(prefix) /\ SubSeq(url, 1, Len(prefix)) = prefix

Min(S) == CHOOSE x \in S : \A y \in S : x <= y

\* query_pairs().find(|(k, _)| k == key): the value of the first pair whose
\* key is `key`.
find(query, key) ==
    LET at == {i \in 1..Len(query) : query[i][1] = key} IN
    IF at = {} THEN None ELSE Some(query[Min(at)][2])

\* A bug the loop could have: no `break`, the listener goes on after the
\* callback request.
request_outcome_no_break(request, respond_ok) ==
    IF starts_with(request.path, <<"/callback">>)
    THEN [next |-> "listen", code |-> find(request.query, "code"), responded |-> respond_ok]
    ELSE [next |-> "listen", code |-> None, responded |-> FALSE]

\* A bug the loop could have: a callback request without code is answered
\* and the listener waits for another.
request_outcome_awaiting_code(request, respond_ok) ==
    IF starts_with(request.path, <<"/callback">>)
    THEN LET query_code == find(request.query, "code") IN
         IF ~respond_ok
         THEN [next |-> "return", code |-> query_code, responded |-> FALSE,
               result |-> Err("respond")]
         ELSE IF query_code = None
         THEN [next |-> "listen", code |-> None, responded |-> TRUE]
         ELSE [next |-> "exchange", code |-> query_code, responded |-> TRUE]
    ELSE [next |-> "listen", code |-> None, responded |-> FALSE]

\* Lines 149-162: what one request taken from incoming_requests() makes
\* authorize_spotify do; respond_ok is whether request.respond succeeded.
\*   "listen":   not a callback request, dropped, the loop goes on
\*   "return":   respond failed (`?`), or the callback carried no code (162)
\*   "exchange": break with a code
request_outcome(request, respond_ok) ==
    IF starts_with(request.path, <<"/callback">>)
    THEN LET query_code == find(request.query, "code") IN
         IF ~respond_ok
         THEN [next |-> "return", code |-> query_code, responded |-> FALSE,
               result |-> Err("respond")]
         ELSE IF query_code = None
         THEN [next |-> "return", code |-> query_code, responded |-> TRUE,
               result |-> Err("authorization code not found")]
         ELSE [next |-> "exchange", code |-> query_code, responded |-> TRUE]
    ELSE [next |-> "listen", code |-> None, responded |-> FALSE]

\* One turn of `for request in server.incoming_requests()`, and for the
\* callback request what follows the loop up to the exchange's send()
\* (lines 148-179).
handle_request ==
    /\ pc = "listening"
    /\ incoming # <<>>
    /\ \E respond_ok \in BOOLEAN :
         LET request == Head(incoming)
             out == request_outcome(request, respond_ok) IN
         /\ incoming' = Tail(incoming)
         /\ handled' = Append(handled, request)
         /\ code' = IF out.code = None THEN code ELSE out.code
         /\ responses' = IF out.responded THEN responses + 1 ELSE responses
         /\ CASE out.next = "listen" ->
                   UNCHANGED <<pc, result, server, exchange_requests, auth_result>>
              [] out.next = "return" ->
                   /\ Return(out.result)
                   /\ auth_result' = Some(out.result)
                   /\ UNCHANGED exchange_requests
              [] out.next = "exchange" ->
                   /\ pc' = "exchange_wait"
                   /\ exchange_requests' =
                          Append(exchange_requests, ExchangeForm(out.code.v))
                   /\ UNCHANGED <<result, server, auth_result>>
    /\ UNCHANGED <<token_file, refresh_token, pending, write_site, state, arrived,
                   file_before, writes, refresh_requests, refresh_response,
                   exchange_response, browser_opens>>
    /\ UNCHANGED app_vars

\* Lines 175-183: the answer to the exchange; the status is not looked at.
exchange_outcome(res) ==
    IF res.kind = "transport_error"
    THEN Err("exchange_transport")
    ELSE LET token_json == from_str(res.body) IN
         IF token_json.t = "err" THEN Err("exchange_decode") ELSE token_json

\* The token endpoint answers the exchange, or the request fails;
\* authorize_spotify returns, and on Ok line 112 begins.
exchange_answered ==
    /\ pc = "exchange_wait"
    /\ \E res \in Responses :
         LET new_token == exchange_outcome(res) IN
         /\ exchange_response' = Some(res)
         /\ auth_result' = Some(new_token)
         /\ IF new_token.t = "err"
            THEN /\ Return(new_token)
                 /\ UNCHANGED <<pending, write_site>>
            ELSE /\ pc' = "write_create"
                 /\ pending' = Some(new_token.v)
                 /\ write_site' = "authorize"
                 /\ server' = "closed"
                 /\ UNCHANGED result
    /\ UNCHANGED <<token_file, refresh_token, state, incoming, arrived, code,
                   file_before, writes, refresh_requests, refresh_response,
                   exchange_requests, handled, responses, browser_opens>>
    /\ UNCHANGED app_vars

(***************************************************************************)
(* fs::write(TOKEN_FILE, to_string_pretty(..)?)?, lines 94 and 112         *)
(***************************************************************************)
\* fs::write is File::create (the file is opened and cut to length 0) and
\* then write_all.  File::create can fail, and then the file is untouched.
fs_write_create ==
    /\ pc = "write_create"
    /\ writes' = writes + 1
    /\ \E created \in BOOLEAN :
         IF created
         THEN /\ token_file' = Text(Empty)
              /\ pc' = "write_all"
              /\ UNCHANGED <<result, server>>
         ELSE /\ Return(Err("persist"))
              /\ UNCHANGED token_file
    /\ UNCHANGED <<refresh_token, pending, write_site, state, incoming, arrived,
                   code, file_before, refresh_requests, refresh_response,
                   exchange_requests, exchange_response, handled, responses,
                   browser_opens, auth_result>>
    /\ UNCHANGED app_vars

\* A bug the refresh path could have: no `return` after the write of line 94,
\* so that the call goes on to full authorization.
after_write_falling_through(site) ==
    IF site = "refresh" THEN "authorize" ELSE "return"

\* Lines 95 and 113: after either write the access token is returned.
after_write(site) == "return"

\* write_all puts n of the record's fields on disk: all of them, or fewer
\* when it fails (disk full, I/O error), and then `?` returns the error.
fs_write_all ==
    /\ pc = "write_all"
    /\ \E n \in 0..NFields :
         LET contents == to_string_pretty(pending.v) IN
         IF n = NFields
         THEN /\ token_file' = Text(contents)
              /\ IF after_write(write_site) = "return"
                 THEN Return(Ok(pending.v.access_token))
                 ELSE pc' = "authorize" /\ UNCHANGED <<result, server>>
         ELSE /\ token_file' = Text(Truncated(contents, n))
              /\ Return(Err("persist"))
    /\ UNCHANGED <<refresh_token, pending, write_site, state, incoming, arrived,
                   code, file_before, writes, refresh_requests, refresh_response,
                   exchange_requests, exchange_response, handled, responses,
                   browser_opens, auth_result>>
    /\ UNCHANGED app_vars

\* The process is stopped (killed, power loss) while the call is running.
Running ==
    {"refresh_wait", "authorize", "listening", "exchange_wait", "write_create",
     "write_all"}

process_stops ==
    /\ pc \in Running
    /\ pc' = "stopped"
    /\ server' = IF server = "open" THEN "closed" ELSE server
    /\ UNCHANGED <<token_file, result, refresh_token, pending, write_site, state,
                   incoming, arrived, code, file_before, writes, refresh_requests,
                   refresh_response, exchange_requests, exchange_response,
                   handled, responses, browser_opens, auth_result>>
    /\ UNCHANGED app_vars

(***************************************************************************)
(* Specifications                                                          *)
(***************************************************************************)
Next ==
    \/ get_spotify_access_token
    \/ refresh_answered
    \/ authorize_spotify
    \/ request_arrives
    \/ handle_request
    \/ exchange_answered
    \/ fs_write_create
    \/ fs_write_all
    \/ process_stops

Spec == Init /\ [][Next]_vars

\* The steps the program takes by itself once they are possible: the call
\* runs, a request the listener holds is taken by the loop, a request sent to
\* the token endpoint is answered or fails, a write ends.  Nothing makes a
\* browser send a request, and nothing makes the process stop.
ProgramStep ==
    \/ get_spotify_access_token
    \/ refresh_answered
    \/ authorize_spotify
    \/ handle_request
    \/ exchange_answered
    \/ fs_write_create
    \/ fs_write_all

FairSpec == Spec /\ WF_vars(ProgramStep)

(***************************************************************************)
(* Properties                                                              *)
(***************************************************************************)
Success(status) == status >= 200 /\ status <= 299

\* The refresh request was answered with a success status and a complete
\* record that names no refresh token.
RefreshedWithoutRefreshToken ==
    /\ refresh_response # None
    /\ refresh_response.v.kind = "response"
    /\ Success(refresh_response.v.status)
    /\ Decodable(refresh_response.v.body)
    /\ ~HasType(refresh_response.v.body.o, "refresh_token", "str")

\* C1: refresh-token preservation.  When the stored record has refresh token
\* R and the refresh is answered with a success status and a record without
\* refresh_token, the call goes to the write of line 94 without starting an
\* authorization, and once that write has not failed the call returns the
\* response's access_token and the file holds a complete record whose
\* refresh_token is R and whose access_token is the response's.
C1_RefreshTokenPreserved ==
    RefreshedWithoutRefreshToken =>
        /\ browser_opens = 0
        /\ pc \in {"write_create", "write_all", "done", "stopped"}
        /\ (pc = "done" /\ result # Err("persist")) =>
              /\ result = Ok(refresh_response.v.body.o["access_token"].v)
              /\ token_file.kind = "text"
              /\ Decodable(token_file.text)
              /\ token_file.text.o["refresh_token"]
                     = file_before.text.o["refresh_token"]
              /\ token_file.text.o["access_token"]
                     = refresh_response.v.body.o["access_token"]

C1_Witness ==
    /\ RefreshedWithoutRefreshToken
    /\ pc = "done"
    /\ result.t = "ok"
    /\ file_before.text.o["refresh_token"] = JStr("R1")
    /\ token_file.text.o["access_token"] = JStr("T2")

\* The request was handled as the callback of the attempt.
AtCallbackPath(request) == starts_with(request.path, <<"/callback">>)
CallbacksHandled == {i \in 1..Len(handled) : AtCallbackPath(handled[i])}

\* The request carries a `state` parameter that is not the attempt's token.
StateDiffers(request) ==
    \E j \in 1..Len(request.query) :
        request.query[j][1] = "state" /\ Some(request.query[j][2]) # state

\* C2: anti-forgery check.  Once the loop has taken a callback request whose
\* state parameter differs from the token generated for the attempt, no code
\* exchange has been issued, nothing is written and the call does not return
\* an access token: it ends with an error.
C2_StateMismatchRejected ==
    (\E i \in CallbacksHandled : StateDiffers(handled[i])) =>
        /\ exchange_requests = <<>>
        /\ writes = 0
        /\ pending = None
        /\ pc = "done" => result.t = "err"

\* The refresh request was answered with a non-success status.
RefreshRejected ==
    /\ refresh_response # None
    /\ refresh_response.v.kind = "response"
    /\ ~Success(refresh_response.v.status)

\* C3: a refresh the provider rejects is recoverable.  After a non-success
\* status the call has returned nothing at that point: it is at the start of
\* full authorization or past it, it returns only once authorize_spotify has
\* returned, with authorize_spotify's error when that failed and with the
\* access token of authorize_spotify's record when that succeeded (the error
\* of the write of line 112 when that write failed).
C3_RefreshRejectedFallsBack ==
    RefreshRejected =>
        /\ pc = "authorize" \/ browser_opens = 1 \/ pc = "stopped"
        /\ pc # "done" => result = NoResult
        /\ pc = "done" =>
              /\ auth_result # None
              /\ auth_result.v.t = "err" => result = auth_result.v
              /\ auth_result.v.t = "ok" =>
                    result \in {Ok(auth_result.v.v.access_token), Err("persist")}

C3_Witness ==
    /\ RefreshRejected
    /\ pc = "done"
    /\ result.t = "ok"
    /\ auth_result # None

\* The refresh request failed in transport, or was answered with a success
\* status and a body that is no credential record.
RefreshBroken ==
    /\ refresh_response # None
    /\ \/ refresh_response.v.kind = "transport_error"
       \/ /\ refresh_response.v.kind = "response"
          /\ Success(refresh_response.v.status)
          /\ ~Decodable(refresh_response.v.body)

\* C4: every refresh failure is recoverable.  After a transport error, or a
\* success status with an undecodable body, the call does not return without
\* a full authorization having been made.
C4_RefreshFailureFallsBack ==
    RefreshBroken => ~(pc = "done" /\ auth_result = None)

\* C5: full authorization terminates.  A wait for the redirect during which
\* no callback request is ever held by the listener ends, unless the process
\* is stopped first: the call returns an error.
NoCallbackWaiting == \A i \in 1..Len(incoming) : ~AtCallbackPath(incoming[i])

C5_AuthorizationTerminates ==
    []((pc = "listening" /\ []NoCallbackWaiting)
          => <>((pc = "done" /\ result.t = "err") \/ pc = "stopped"))

LifecycleErrors ==
    {"refresh_transport", "refresh_decode", "respond",
     "authorization code not found", "exchange_transport", "exchange_decode"}

\* C7: credential-write accounting.  A call that has returned an access
\* token has made exactly one fs::write; a call that has returned an error of
\* refresh, callback capture or code exchange has made none, and the file is
\* as it was when the call began.
C7_WriteAccounting ==
    pc = "done" =>
        /\ result.t = "ok" => writes = 1
        /\ (result.t = "err" /\ result.e \in LifecycleErrors) =>
              writes = 0 /\ token_file = file_before

C7_Witness ==
    /\ pc = "done"
    /\ RefreshRejected
    /\ result.t = "ok"
    /\ writes = 1
    /\ token_file # file_before

\* The exchange failed in transport or was answered with a non-success status.
ExchangeFailed ==
    /\ exchange_response # None
    /\ \/ exchange_response.v.kind = "transport_error"
       \/ /\ exchange_response.v.kind = "response"
          /\ ~Success(exchange_response.v.status)

\* C8: a failed code exchange is surfaced.  After a transport error or a
\* non-success status on the exchange nothing is written, the file is as it
\* was, and the call returns an error and no access token.
C8_ExchangeFailureSurfaced ==
    ExchangeFailed =>
        /\ writes = 0
        /\ pending = None
        /\ token_file = file_before
        /\ pc = "done" /\ result.t = "err"

\* A field of a JSON object, null when the object does not have it.
FieldOf(text, k) == IF k \in DOMAIN text.o THEN text.o[k] ELSE JNull

\* The codes a request carries.
CodesOf(request) ==
    {request.query[j][2] :
        j \in {i \in 1..Len(request.query) : request.query[i][1] = "code"}}

\* C9: first run.  With no credential file no refresh request is sent, the
\* call returns only through authorize_spotify, the one code it exchanges is
\* the code of the callback request the loop took, and when it returns an
\* access token the file is a complete record whose four fields are those of
\* the exchange response and the value returned is its access_token.
C9_FirstRun ==
    file_before = Absent =>
        /\ refresh_requests = <<>>
        /\ refresh_response = None
        /\ pc = "done" => auth_result # None /\ browser_opens = 1
        /\ Len(exchange_requests) <= 1
        /\ exchange_requests # <<>> =>
              /\ CallbacksHandled # {}
              /\ CodesOf(handled[Len(handled)]) = {exchange_requests[1].code}
        /\ (pc = "done" /\ result.t = "ok") =>
              /\ token_file.kind = "text"
              /\ Decodable(token_file.text)
              /\ DOMAIN token_file.text.o = {FieldOrder[i] : i \in 1..NFields}
              /\ \A k \in DOMAIN token_file.text.o :
                    token_file.text.o[k] = FieldOf(exchange_response.v.body, k)
              /\ result = Ok(exchange_response.v.body.o["access_token"].v)

C9_Witness ==
    /\ file_before = Absent
    /\ pc = "done"
    /\ result = Ok("T1")
    /\ exchange_requests = <<ExchangeForm("abc123")>>
    /\ token_file = Text(BodyWithRefresh("T1", JStr("R1")))

\* C10: atomic credential persistence.  The file always holds the complete
\* content it had when the call began or the complete record being written.
C10_AtomicPersistence ==
    \/ token_file = file_before
    \/ pending # None /\ token_file = Text(to_string_pretty(pending.v))

(***************************************************************************)
(* The Remote Session Client, src/api/spotify.rs                           *)
(***************************************************************************)
\* How many playlists the account can have.
MaxPlaylists == 3

\* Duration::from_secs(1), in ms
update_interval == 1000

JBool(b) == [t |-> "bool", v |-> b]
\* a track object; of struct Track the model keeps the name
JTrack(name) == [t |-> "track", v |-> [name |-> name]]

\* The body of GET /v1/me/player
PlayerBody(is_playing, item, progress_ms) ==
    Object([is_playing |-> JBool(is_playing), item |-> item,
            progress_ms |-> progress_ms])

PlayerBodies ==
    {PlayerBody(TRUE, JTrack("A"), JNum(1000)),
     PlayerBody(FALSE, JTrack("B"), JNum(2000)),
     PlayerBody(FALSE, JNull, JNull)}

\* What the playback API can answer to GET /v1/me/player.
PlaybackResponses ==
    {TransportError, Response(204, Empty), Response(202, Empty),
     Response(200, Garbage), Response(401, ErrorBody)}
    \cup {Response(200, b) : b \in PlayerBodies}

\* What it can answer to the commands (POST next/previous, PUT play).
CommandResponses ==
    {TransportError, Response(204, Empty), Response(403, ErrorBody)}

\* Deserialize for SpotifyPlayer: is_playing a bool, item a track, null or
\* missing, progress_ms a number, null or missing.
PlayerDecodable(text) ==
    /\ text.j = "object"
    /\ text.closed
    /\ HasType(text.o, "is_playing", "bool")
    /\ "item" \in DOMAIN text.o => text.o["item"].t \in {"track", "null"}
    /\ "progress_ms" \in DOMAIN text.o => text.o["progress_ms"].t \in {"num", "null"}

\* Response::json::<SpotifyPlayer>
player_from_json(text) ==
    IF PlayerDecodable(text)
    THEN Ok([is_playing |-> text.o["is_playing"].v,
             item |-> IF HasType(text.o, "item", "track")
                      THEN Some(text.o["item"].v) ELSE None,
             progress_ms |-> IF HasType(text.o, "progress_ms", "num")
                             THEN Some(text.o["progress_ms"].v) ELSE None])
    ELSE Err("decode")

\* A bug get_current_playback could have: 204 is not told apart, and its
\* empty body goes to the decoder.
get_current_playback_without_204(res) ==
    IF res.kind = "transport_error" THEN Err("transport")
    ELSE IF ~is_success(res.status) THEN Err("status")
    ELSE player_from_json(res.body)

\* SpotifyClient::get_current_playback, given the answer to its request.
get_current_playback(res) ==
    IF res.kind = "transport_error" THEN Err("transport")
    ELSE IF res.status = 204 THEN Ok(SpotifyPlayer_default)
    ELSE IF ~is_success(res.status) THEN Err("status")
    ELSE player_from_json(res.body)

\* () and the arguments of the remote calls
Unit == [t |-> "unit"]
NoArg == [t |-> "none"]
Direction(d) == [t |-> "direction", v |-> d]
PlaylistId(id) == [t |-> "playlist", v |-> id]

\* One remote call as the model records it: what was asked, the answer, and
\* what the client's method made of it.
Call(op, arg, res, out) == [op |-> op, arg |-> arg, res |-> res, out |-> out]

\* A bug skip_track could have: the snapshot is not fetched again.
skip_track_without_refetch(direction, res, fetched, player) ==
    IF res.kind = "transport_error"
    THEN [out |-> Err("transport"), player |-> player,
          calls |-> <<Call("skip_track", Direction(direction), res, Err("transport"))>>]
    ELSE IF ~is_success(res.status)
    THEN [out |-> Err("status"), player |-> player,
          calls |-> <<Call("skip_track", Direction(direction), res, Err("status"))>>]
    ELSE [out |-> Ok(Unit), player |-> player,
          calls |-> <<Call("skip_track", Direction(direction), res, Ok(Unit))>>]

\* SpotifyClient::skip_track: res answers the POST, fetched the GET that
\* follows a successful POST; `player` is self.spotify_player before.
skip_track(direction, res, fetched, player) ==
    IF res.kind = "transport_error"
    THEN [out |-> Err("transport"), player |-> player,
          calls |-> <<Call("skip_track", Direction(direction), res, Err("transport"))>>]
    ELSE IF ~is_success(res.status)
    THEN [out |-> Err("status"), player |-> player,
          calls |-> <<Call("skip_track", Direction(direction), res, Err("status"))>>]
    ELSE LET got == get_current_playback(fetched) IN
         [out |-> IF got.t = "ok" THEN Ok(Unit) ELSE got,
          player |-> IF got.t = "ok" THEN got.v ELSE player,
          calls |-> <<Call("skip_track", Direction(direction), res, Ok(Unit)),
                      Call("get_current_playback", NoArg, fetched, got)>>]

\* SpotifyClient::play_playlist
play_playlist(playlist_id, res) ==
    IF res.kind = "transport_error" THEN Err("transport")
    ELSE IF ~is_success(res.status) THEN Err("status")
    ELSE Ok(Unit)

\* struct Playlist, of which the model keeps the id
Playlist(i) == [id |-> i]

\* The body of GET /v1/me/playlists for an account with n playlists
PlaylistsBody(n) ==
    Object([items |-> [t |-> "list", v |-> [i \in 1..n |-> Playlist(i)]]])

\* What the API can answer to GET /v1/me/playlists.
PlaylistsResponses ==
    {TransportError, Response(401, ErrorBody), Response(200, Garbage)}
    \cup {Response(200, PlaylistsBody(n)) : n \in 0..MaxPlaylists}

\* SpotifyClient::get_user_playlists, given the answer to its request.
get_user_playlists(res) ==
    IF res.kind = "transport_error" THEN Err("transport")
    ELSE IF ~is_success(res.status) THEN Err("status")
    ELSE IF res.body.j = "object" /\ res.body.closed
            /\ HasType(res.body.o, "items", "list")
    THEN Ok(res.body.o["items"].v)
    ELSE Err("decode")

(***************************************************************************)
(* The session controller, src/app.rs                                      *)
(***************************************************************************)
\* KeyCode: 'q', Up, 'k', Down, 'j', Enter, Esc, 'p', Left, Right, and one
\* key no page handles.
KeyCodes == {"q", "Up", "k", "Down", "j", "Enter", "Esc", "p", "Left", "Right", "x"}

\* What the credential lifecycle can return to its caller.
LifecycleResults ==
    {Ok(a) : a \in AccessTokens}
    \cup {Err("refresh_transport"), Err("authorization code not found")}

\* SpotifyOAuth::init() is called: the credential lifecycle begins and blocks
\* App::new until it returns.
SpotifyOAuth_init_called ==
    /\ app_pc = "main"
    /\ pc = "idle"
    /\ app_pc' = "oauth"
    /\ pc' = "lifecycle"
    /\ UNCHANGED <<token_file, result, refresh_token, pending, write_site, state,
                   server, incoming, arrived, code, file_before, writes,
                   refresh_requests, refresh_response, exchange_requests,
                   exchange_response, handled, responses, browser_opens,
                   auth_result>>
    /\ UNCHANGED <<access_token, spotify_player, exit, current_track_name,
                   current_page, playlists, selected, elapsed, key_event, calls,
                   since_poll, album_art_image>>

\* The credential lifecycle returns an access token or an error.
SpotifyOAuth_init_returns ==
    /\ pc = "lifecycle"
    /\ pc' = "done"
    /\ result' \in LifecycleResults
    /\ UNCHANGED <<token_file, refresh_token, pending, write_site, state, server,
                   incoming, arrived, code, file_before, writes,
                   refresh_requests, refresh_response, exchange_requests,
                   exchange_response, handled, responses, browser_opens,
                   auth_result>>
    /\ UNCHANGED app_vars

\* A bug App::new could have: a lifecycle error is replaced by an empty token.
oauth_checked_or_default(r) == IF r.t = "ok" THEN r ELSE Ok("")

\* Lines 36-38: `?` on the lifecycle's result.
oauth_checked(r) == r

\* A bug App::new could have: the first playlist is selected without looking
\* at the collection.
initial_selection_always(items) == Some(0)

\* Lines 58-61: the first playlist is selected when there is one.
initial_selection(items) == IF Len(items) # 0 THEN Some(0) ELSE None

\* track.name of a snapshot's item
track_name(player) ==
    IF player.item = None THEN None ELSE Some(player.item.v.name)

\* App::new after SpotifyOAuth::init() has returned (lines 36-71): the client
\* is built and fetches the snapshot, the playlists are fetched.
App_new ==
    /\ app_pc = "oauth"
    /\ pc = "done"
    /\ LET token == oauth_checked(result) IN
       IF token.t = "err"
       THEN /\ app_pc' = "failed"
            /\ UNCHANGED <<access_token, spotify_player, current_track_name,
                           playlists, selected, calls>>
       ELSE \E res \in PlaybackResponses, lres \in PlaylistsResponses :
              LET got == get_current_playback(res)
                  items == get_user_playlists(lres) IN
              /\ access_token' = Some(token.v)
              /\ IF got.t = "err"
                 THEN /\ app_pc' = "failed"
                      /\ calls' = <<Call("get_current_playback", NoArg, res, got)>>
                      /\ UNCHANGED <<spotify_player, current_track_name,
                                     playlists, selected>>
                 ELSE /\ app_pc' = "constructed"
                      /\ spotify_player' = got.v
                      /\ current_track_name' = track_name(got.v)
                      /\ playlists' = IF items.t = "ok" THEN items.v ELSE <<>>
                      /\ selected' = initial_selection(playlists')
                      /\ calls' = <<Call("get_current_playback", NoArg, res, got),
                                    Call("get_user_playlists", NoArg, lres,
                                         IF items.t = "ok" THEN Ok(Unit) ELSE items)>>
    /\ UNCHANGED <<exit, current_page, elapsed, key_event, since_poll,
                   album_art_image>>
    /\ UNCHANGED oauth_vars

\* App::run is entered (line 74): last_update = now.
App_run ==
    /\ app_pc = "constructed"
    /\ app_pc' = "loop"
    /\ elapsed' = 0
    /\ since_poll' = 0
    /\ calls' = <<>>
    /\ UNCHANGED <<access_token, spotify_player, exit, current_track_name,
                   current_page, playlists, selected, key_event, album_art_image>>
    /\ UNCHANGED oauth_vars

\* Lines 77-78: the loop condition, and terminal.draw, whose error `?` returns.
loop_head ==
    /\ app_pc = "loop"
    /\ IF exit
       THEN app_pc' = "returned"
       ELSE \E drawn \in BOOLEAN :
              app_pc' = IF drawn THEN "events" ELSE "run_error"
    /\ calls' = <<>>
    /\ UNCHANGED <<access_token, spotify_player, exit, current_track_name,
                   current_page, playlists, selected, elapsed, key_event,
                   since_poll, album_art_image>>
    /\ UNCHANGED oauth_vars

\* What event::poll and event::read can come back with within one call of
\* handle_events.
KeyPress(key_code) == [t |-> "key", kind |-> "Press", code |-> key_code]
KeyRelease(key_code) == [t |-> "key", kind |-> "Release", code |-> key_code]
Events ==
    {KeyPress(c) : c \in KeyCodes}
    \cup {KeyRelease("q"), [t |-> "resize"], [t |-> "timeout"], [t |-> "io_error"]}

\* How long one call of handle_events can take, in ms: no time, half the
\* update interval, all of it.
Waits == {0, update_interval \div 2, update_interval}

\* The answers the API can give to what a key makes the client send: the
\* command of Enter, Left and Right, and the snapshot request that follows a
\* skip.  For the other keys nothing is sent and there is no answer to draw.
NoAnswer == TransportError
CommandAnswers(key_code) ==
    IF key_code \in {"Enter", "Left", "Right"} THEN CommandResponses ELSE {NoAnswer}
SnapshotAnswers(key_code) ==
    IF key_code \in {"Left", "Right"} THEN PlaybackResponses ELSE {NoAnswer}

\* The fields of App the key handlers read and write.
AppState ==
    [exit |-> exit, current_page |-> current_page, selected |-> selected,
     playlists |-> playlists, spotify_player |-> spotify_player]

\* What a key handler leaves behind: self, the remote calls it made, and
\* whether it evaluated 0 - 1 in usize.
Handled(self, made) == [self |-> self, calls |-> made, underflow |-> FALSE]
Underflow(self) == [self |-> self, calls |-> <<>>, underflow |-> TRUE]

\* Lines 126-132
select_previous(self) ==
    IF self.selected.t = "some" /\ self.selected.v > 0
    THEN [self EXCEPT !.selected = Some(self.selected.v - 1)]
    ELSE self

\* A bug App::exit could have: the flag is left as it is.
App_exit_without_effect(self) == self

\* App::exit
App_exit(self) == [self EXCEPT !.exit = TRUE]

\* A bug the Enter arm could have: the first playlist is played when nothing
\* is selected.
enter_playing_first(self, res) ==
    LET sel == IF self.selected.t = "some" THEN self.selected.v ELSE 0 IN
    IF Len(self.playlists) = 0
    THEN Handled([self EXCEPT !.current_page = "NowPlaying"],
                 <<Call("play_playlist", PlaylistId(0), res, play_playlist(0, res))>>)
    ELSE LET playlist == self.playlists[sel + 1] IN
         Handled([self EXCEPT !.current_page = "NowPlaying"],
                 <<Call("play_playlist", PlaylistId(playlist.id), res,
                        play_playlist(playlist.id, res))>>)

\* A bug the Enter arm could have: the page changes only when the command
\* succeeded.
enter_unless_failed(self, res) ==
    IF self.selected.t = "some" /\ self.selected.v + 1 \in DOMAIN self.playlists
    THEN LET playlist == self.playlists[self.selected.v + 1]
             out == play_playlist(playlist.id, res) IN
         Handled(IF out.t = "ok" THEN [self EXCEPT !.current_page = "NowPlaying"]
                 ELSE self,
                 <<Call("play_playlist", PlaylistId(playlist.id), res, out)>>)
    ELSE Handled(self, <<>>)

\* Lines 140-149: playlists.get(selected) is the element at the 0-based index.
enter(self, res) ==
    IF self.selected.t = "some" /\ self.selected.v + 1 \in DOMAIN self.playlists
    THEN LET playlist == self.playlists[self.selected.v + 1]
             out == play_playlist(playlist.id, res) IN
         Handled([self EXCEPT !.current_page = "NowPlaying"],
                 <<Call("play_playlist", PlaylistId(playlist.id), res, out)>>)
    ELSE Handled(self, <<>>)

\* App::handle_playlist_list_key: res answers the play command of Enter.
handle_playlist_list_key(self, key_code, res) ==
    IF key_code = "q" THEN Handled(App_exit(self), <<>>)
    ELSE IF key_code \in {"Up", "k"} THEN Handled(select_previous(self), <<>>)
    ELSE IF key_code \in {"Down", "j"}
    THEN IF self.selected.t = "some"
         THEN IF Len(self.playlists) = 0
              THEN Underflow(self)
              ELSE IF self.selected.v < Len(self.playlists) - 1
              THEN Handled([self EXCEPT !.selected = Some(self.selected.v + 1)], <<>>)
              ELSE Handled(self, <<>>)
         ELSE Handled(self, <<>>)
    ELSE IF key_code = "Enter" THEN enter(self, res)
    ELSE Handled(self, <<>>)

\* A bug the Esc arm could have: going back also forgets the selection.
back_to_list_resetting(self) ==
    [self EXCEPT !.current_page = "PlaylistList",
                 !.selected = IF Len(self.playlists) # 0 THEN Some(0) ELSE None]

\* Lines 157-160
back_to_list(self) == [self EXCEPT !.current_page = "PlaylistList"]

\* A bug the skip arms could have: a failed skip clears the snapshot.
skipped_or_cleared(self, r) ==
    Handled([self EXCEPT !.spotify_player =
                 IF r.out.t = "ok" THEN r.player ELSE SpotifyPlayer_default],
            r.calls)

\* Lines 161-169: `let _ =` drops the result of skip_track.
skipped(self, r) == Handled([self EXCEPT !.spotify_player = r.player], r.calls)

\* App::handle_now_playing_key: res answers the skip command, fetched the
\* snapshot request that follows it.
handle_now_playing_key(self, key_code, res, fetched) ==
    IF key_code = "q" THEN Handled(App_exit(self), <<>>)
    ELSE IF key_code \in {"Esc", "p"} THEN Handled(back_to_list(self), <<>>)
    ELSE IF key_code = "Left"
    THEN skipped(self, skip_track("Previous", res, fetched, self.spotify_player))
    ELSE IF key_code = "Right"
    THEN skipped(self, skip_track("Next", res, fetched, self.spotify_player))
    ELSE Handled(self, <<>>)

\* A bug the dispatch could have: the key decides the handler, not the page.
handle_key_event_by_key(self, key_code, res, fetched) ==
    IF key_code \in {"Esc", "p", "Left", "Right"}
    THEN handle_now_playing_key(self, key_code, res, fetched)
    ELSE handle_playlist_list_key(self, key_code, res)

\* App::handle_key_event
handle_key_event(self, key_code, res, fetched) ==
    IF self.current_page = "PlaylistList"
    THEN handle_playlist_list_key(self, key_code, res)
    ELSE handle_now_playing_key(self, key_code, res, fetched)

\* The time since last_update, as far as the comparison of line 84 can tell.
Later(dt) == IF elapsed + dt >= update_interval THEN update_interval ELSE elapsed + dt

\* The time since the latest timer-driven fetch, capped in the same way.
LaterSincePoll(dt) ==
    IF since_poll + dt >= update_interval THEN update_interval ELSE since_poll + dt

\* App::handle_events (line 81): at most one event is read and, if it is a
\* key press, handled.  `len() - 1` on an empty Vec panics in a debug build
\* and wraps to usize::MAX in a release build.
handle_events ==
    /\ app_pc = "events"
    /\ \E ev \in Events, dt \in Waits :
         /\ elapsed' = Later(dt)
         /\ since_poll' = LaterSincePoll(dt)
         /\ IF ev.t = "io_error"
            THEN /\ app_pc' = "run_error"
                 /\ key_event' = None
                 /\ calls' = <<>>
                 /\ UNCHANGED <<exit, current_page, selected, spotify_player>>
            ELSE IF ev.t = "key" /\ ev.kind = "Press"
            THEN \E res \in CommandAnswers(ev.code),
                    fetched \in SnapshotAnswers(ev.code) :
                   LET r == handle_key_event(AppState, ev.code, res, fetched) IN
                   /\ key_event' = Some(ev.code)
                   /\ calls' = r.calls
                   /\ exit' = r.self.exit
                   /\ current_page' = r.self.current_page
                   /\ spotify_player' = r.self.spotify_player
                   /\ IF r.underflow
                      THEN \/ /\ app_pc' = "panicked"
                              /\ selected' = r.self.selected
                           \/ /\ app_pc' = "timer"
                              /\ selected' = Some(r.self.selected.v + 1)
                      ELSE /\ app_pc' = "timer"
                           /\ selected' = r.self.selected
            ELSE /\ app_pc' = "timer"
                 /\ key_event' = None
                 /\ calls' = <<>>
                 /\ UNCHANGED <<exit, current_page, selected, spotify_player>>
    /\ UNCHANGED <<access_token, current_track_name, playlists, album_art_image>>
    /\ UNCHANGED oauth_vars

\* A bug the poll could have: a response without a track keeps the track of
\* the snapshot before.
poll_update_merging(got, player, name) ==
    IF got.t = "ok"
    THEN [player |-> [got.v EXCEPT !.item = IF got.v.item = None THEN player.item ELSE @],
          name |-> IF track_name(got.v) # name THEN track_name(got.v) ELSE name]
    ELSE [player |-> player, name |-> name]

\* Lines 85-92: `if let Ok(player)`.
poll_update(got, player, name) ==
    IF got.t = "ok"
    THEN [player |-> got.v,
          name |-> IF track_name(got.v) # name THEN track_name(got.v) ELSE name]
    ELSE [player |-> player, name |-> name]

\* A bug the poll could have: the timer is reset only by a successful poll.
last_update_elapsed_unless_failed(got, before) ==
    IF got.t = "ok" THEN 0 ELSE before

\* Line 93: last_update = now, whatever the poll returned.
last_update_elapsed(got, before) == 0

\* Lines 84-94: the timer-driven poll at the end of an iteration.
timer_poll ==
    /\ app_pc = "timer"
    /\ app_pc' = "loop"
    /\ IF elapsed >= update_interval
       THEN \E res \in PlaybackResponses :
              LET got == get_current_playback(res)
                  upd == poll_update(got, spotify_player, current_track_name) IN
              /\ spotify_player' = upd.player
              /\ current_track_name' = upd.name
              /\ calls' = <<Call("get_current_playback", NoArg, res, got)>>
              /\ elapsed' = last_update_elapsed(got, elapsed)
              /\ since_poll' = 0
       ELSE /\ calls' = <<>>
            /\ UNCHANGED <<spotify_player, current_track_name, elapsed, since_poll>>
    /\ UNCHANGED <<access_token, exit, current_page, playlists, selected, key_event,
                   album_art_image>>
    /\ UNCHANGED oauth_vars

\* The program from main on: the credential lifecycle as its caller sees it
\* (Spec follows it step by step), then the session.
AppInit == Init /\ token_file = Absent

AppNext ==
    \/ SpotifyOAuth_init_called
    \/ SpotifyOAuth_init_returns
    \/ App_new
    \/ App_run
    \/ loop_head
    \/ handle_events
    \/ timer_poll

AppSpec == AppInit /\ [][AppNext]_vars

(***************************************************************************)
(* The program of src/main.rs: one page, with the album art                *)
(***************************************************************************)
\* A track object of which the model keeps the name and the urls of
\* album.images
JTrackWithAlbum(name, images) ==
    [t |-> "track", v |-> [name |-> name, images |-> images]]

\* Tracks A and B have cover art, track C has none.
AlbumPlayerBodies ==
    {PlayerBody(TRUE, JTrackWithAlbum("A", <<"a.jpg">>), JNum(1000)),
     PlayerBody(TRUE, JTrackWithAlbum("B", <<"b.jpg">>), JNum(2000)),
     PlayerBody(TRUE, JTrackWithAlbum("C", <<>>), JNum(3000)),
     PlayerBody(FALSE, JNull, JNull)}

\* What the playback API can answer to GET /v1/me/player.
AlbumPlaybackResponses ==
    {TransportError, Response(204, Empty), Response(401, ErrorBody)}
    \cup {Response(200, b) : b \in AlbumPlayerBodies}

\* The bytes of the image at url, and the DynamicImage decoded from them
ImageBytes(url) == [j |-> "image", url |-> url]
DynamicImage(url) == [image |-> url]

\* What a GET of an image url can come back with.
ImageResponses(url) ==
    {TransportError, Response(200, ImageBytes(url)), Response(404, Garbage)}

\* SpotifyClient::download_image (spotify.rs:134-144): the status is not
\* looked at, the bytes are decoded.
download_image(url, res) ==
    IF res.kind = "transport_error" THEN Err("transport")
    ELSE IF res.body.j = "image" THEN Ok(DynamicImage(res.body.url))
    ELSE Err("decode")

\* track.album.images.first()
first(images) == IF Len(images) = 0 THEN None ELSE Some(images[1])

\* The url main.rs would download for a snapshot, None when it has no track
\* or the track no image.
image_url(player) ==
    IF player.item = None THEN None ELSE first(player.item.v.images)

\* The answers a download can get for a snapshot request's answer: drawn
\* only when that answer decodes to a track with an image.
NoImageAnswer == TransportError
ImageAnswers(res) ==
    LET got == get_current_playback(res) IN
    IF got.t = "ok" /\ image_url(got.v) # None
    THEN ImageResponses(image_url(got.v).v)
    ELSE {NoImageAnswer}

\* Lines 66-76 of main.rs: the track name and the album art App::new starts
\* with; ires answers the download.
main_initial_art(player, ires) ==
    IF player.item = None
    THEN [name |-> None, art |-> None, calls |-> <<>>]
    ELSE IF image_url(player) = None
    THEN [name |-> Some(player.item.v.name), art |-> None, calls |-> <<>>]
    ELSE LET url == image_url(player).v
             img == download_image(url, ires) IN
         [name |-> Some(player.item.v.name),
          art |-> IF img.t = "ok" THEN Some(img.v) ELSE None,
          calls |-> <<Call("download_image", [t |-> "url", v |-> url], ires, img)>>]

\* App::new of main.rs after SpotifyOAuth::init() has returned (lines 51-85).
main_App_new ==
    /\ app_pc = "oauth"
    /\ pc = "done"
    /\ IF result.t = "err"
       THEN /\ app_pc' = "failed"
            /\ UNCHANGED <<access_token, spotify_player, current_track_name,
                           album_art_image, calls>>
       ELSE \E res \in AlbumPlaybackResponses :
            \E ires \in ImageAnswers(res) :
              LET got == get_current_playback(res) IN
              /\ access_token' = Some(result.v)
              /\ IF got.t = "err"
                 THEN /\ app_pc' = "failed"
                      /\ calls' = <<Call("get_current_playback", NoArg, res, got)>>
                      /\ UNCHANGED <<spotify_player, current_track_name,
                                     album_art_image>>
                 ELSE LET start == main_initial_art(got.v, ires) IN
                      /\ app_pc' = "constructed"
                      /\ spotify_player' = got.v
                      /\ current_track_name' = start.name
                      /\ album_art_image' = start.art
                      /\ calls' = <<Call("get_current_playback", NoArg, res, got)>>
                                  \o start.calls
    /\ UNCHANGED <<exit, current_page, playlists, selected, elapsed, key_event,
                   since_poll>>
    /\ UNCHANGED oauth_vars

\* App::run of main.rs is entered (line 88).
main_App_run ==
    /\ app_pc = "constructed"
    /\ app_pc' = "loop"
    /\ elapsed' = 0
    /\ since_poll' = 0
    /\ calls' = <<>>
    /\ UNCHANGED <<access_token, spotify_player, exit, current_track_name,
                   current_page, playlists, selected, key_event, album_art_image>>
    /\ UNCHANGED oauth_vars

\* Lines 91-92 of main.rs.
main_loop_head ==
    /\ app_pc = "loop"
    /\ IF exit
       THEN app_pc' = "returned"
       ELSE \E drawn \in BOOLEAN :
              app_pc' = IF drawn THEN "events" ELSE "run_error"
    /\ calls' = <<>>
    /\ UNCHANGED <<access_token, spotify_player, exit, current_track_name,
                   current_page, playlists, selected, elapsed, key_event,
                   since_poll, album_art_image>>
    /\ UNCHANGED oauth_vars

\* App::handle_key_event of main.rs (lines 140-151); self is the exit flag
\* and the snapshot.
main_handle_key_event(self, key_code, res, fetched) ==
    IF key_code = "q" THEN Handled([self EXCEPT !.exit = TRUE], <<>>)
    ELSE IF key_code = "Left"
    THEN skipped(self, skip_track("Previous", res, fetched, self.spotify_player))
    ELSE IF key_code = "Right"
    THEN skipped(self, skip_track("Next", res, fetched, self.spotify_player))
    ELSE Handled(self, <<>>)

\* The keys main.rs tells apart, and one it does not handle
MainKeyCodes == {"q", "Left", "Right", "x"}

MainEvents ==
    {KeyPress(c) : c \in MainKeyCodes}
    \cup {KeyRelease("q"), [t |-> "timeout"], [t |-> "io_error"]}

MainSnapshotAnswers(key_code) ==
    IF key_code \in {"Left", "Right"} THEN AlbumPlaybackResponses ELSE {NoAnswer}

\* App::handle_events of main.rs (lines 127-138).
main_handle_events ==
    /\ app_pc = "events"
    /\ \E ev \in MainEvents, dt \in Waits :
         /\ elapsed' = Later(dt)
         /\ since_poll' = LaterSincePoll(dt)
         /\ IF ev.t = "io_error"
            THEN /\ app_pc' = "run_error"
                 /\ key_event' = None
                 /\ calls' = <<>>
                 /\ UNCHANGED <<exit, spotify_player>>
            ELSE IF ev.t = "key" /\ ev.kind = "Press"
            THEN \E res \in CommandAnswers(ev.code),
                    fetched \in MainSnapshotAnswers(ev.code) :
                   LET r == main_handle_key_event(AppState, ev.code, res, fetched) IN
                   /\ app_pc' = "timer"
                   /\ key_event' = Some(ev.code)
                   /\ calls' = r.calls
                   /\ exit' = r.self.exit
                   /\ spotify_player' = r.self.spotify_player
            ELSE /\ app_pc' = "timer"
                 /\ key_event' = None
                 /\ calls' = <<>>
                 /\ UNCHANGED <<exit, spotify_player>>
    /\ UNCHANGED <<access_token, current_track_name, current_page, playlists,
                   selected, album_art_image>>
    /\ UNCHANGED oauth_vars

\* A bug the poll could have: the art is downloaded again on every poll.
main_poll_update_always(got, ires, player, name, art) ==
    IF got.t = "err"
    THEN [player |-> player, name |-> name, art |-> art, calls |-> <<>>]
    ELSE IF got.v.item = None
    THEN [player |-> got.v, name |-> None, art |-> None, calls |-> <<>>]
    ELSE IF image_url(got.v) = None
    THEN [player |-> got.v, name |-> track_name(got.v), art |-> art,
          calls |-> <<>>]
    ELSE LET url == image_url(got.v).v
             img == download_image(url, ires) IN
         [player |-> got.v, name |-> track_name(got.v),
          art |-> IF img.t = "ok" THEN Some(img.v) ELSE art,
          calls |-> <<Call("download_image", [t |-> "url", v |-> url], ires, img)>>]

\* Lines 99-116 of main.rs: what a poll's result does to the snapshot, the
\* cached track name and the album art; ires answers the download.
main_poll_update(got, ires, player, name, art) ==
    IF got.t = "err"
    THEN [player |-> player, name |-> name, art |-> art, calls |-> <<>>]
    ELSE IF track_name(got.v) = name
    THEN [player |-> got.v, name |-> name, art |-> art, calls |-> <<>>]
    ELSE IF got.v.item = None
    THEN [player |-> got.v, name |-> None, art |-> None, calls |-> <<>>]
    ELSE IF image_url(got.v) = None
    THEN [player |-> got.v, name |-> track_name(got.v), art |-> art,
          calls |-> <<>>]
    ELSE LET url == image_url(got.v).v
             img == download_image(url, ires) IN
         [player |-> got.v, name |-> track_name(got.v),
          art |-> IF img.t = "ok" THEN Some(img.v) ELSE art,
          calls |-> <<Call("download_image", [t |-> "url", v |-> url], ires, img)>>]

\* Lines 98-118 of main.rs: the timer-driven poll at the end of an iteration.
main_timer_poll ==
    /\ app_pc = "timer"
    /\ app_pc' = "loop"
    /\ IF elapsed >= update_interval
       THEN \E res \in AlbumPlaybackResponses :
            \E ires \in ImageAnswers(res) :
              LET got == get_current_playback(res)
                  upd == main_poll_update(got, ires, spotify_player,
                                          current_track_name, album_art_image) IN
              /\ spotify_player' = upd.player
              /\ current_track_name' = upd.name
              /\ album_art_image' = upd.art
              /\ calls' = <<Call("get_current_playback", NoArg, res, got)>>
                          \o upd.calls
              /\ elapsed' = 0
              /\ since_poll' = 0
       ELSE /\ calls' = <<>>
            /\ UNCHANGED <<spotify_player, current_track_name, album_art_image,
                           elapsed, since_poll>>
    /\ UNCHANGED <<access_token, exit, current_page, playlists, selected, key_event>>
    /\ UNCHANGED oauth_vars

MainNext ==
    \/ SpotifyOAuth_init_called
    \/ SpotifyOAuth_init_returns
    \/ main_App_new
    \/ main_App_run
    \/ main_loop_head
    \/ main_handle_events
    \/ main_timer_poll

MainSpec == AppInit /\ [][MainNext]_vars

(***************************************************************************)
(* Properties of the session                                               *)
(***************************************************************************)
\* The step of handle_events that dispatches a press of one of `keys` on `page`
KeyHandled(keys, page) ==
    /\ app_pc = "events"
    /\ current_page = page
    /\ key_event' \in {Some(k) : k \in keys}

\* The handler of the key returned and the iteration goes on to its timer check.
HandlerReturned == app_pc' = "timer"

\* C11: the run loop is entered only after the credential lifecycle has
\* returned an access token, which is the one the client is built with; when
\* the lifecycle returns an error App::new fails: no client is built, no remote
\* request is made and the run loop is never entered.
C11_StartupOrdering ==
    /\ app_pc \notin {"main", "oauth", "failed"} =>
          /\ pc = "done"
          /\ result.t = "ok"
          /\ access_token = Some(result.v)
    /\ (pc = "done" /\ result.t = "err") =>
          /\ app_pc \in {"oauth", "failed"}
          /\ access_token = None
          /\ calls = <<>>

C11_Witness == app_pc = "failed" /\ pc = "done" /\ result.t = "err"

\* C12: the selection is absent exactly when there are no playlists and is
\* otherwise an index in [0, len-1]; Up at 0 and Down at len-1 leave it
\* unchanged; `len - 1` is never evaluated on an empty collection.
SelectionInBounds ==
    /\ selected = None <=> Len(playlists) = 0
    /\ selected.t = "some" => selected.v \in 0..(Len(playlists) - 1)
    /\ app_pc # "panicked"

SelectionClamped ==
    /\ (KeyHandled({"Up", "k"}, "PlaylistList") /\ selected = Some(0))
          => selected' = Some(0)
    /\ (KeyHandled({"Down", "j"}, "PlaylistList")
        /\ selected = Some(Len(playlists) - 1))
          => selected' = selected
    /\ KeyHandled({"Down", "j"}, "PlaylistList") /\ selected.t = "some"
          => Len(playlists) > 0

C12_SelectionBounds == []SelectionInBounds /\ [][SelectionClamped]_vars

C12_Witness ==
    /\ app_pc = "timer"
    /\ key_event \in {Some("Down"), Some("j")}
    /\ Len(playlists) >= 2
    /\ selected = Some(Len(playlists) - 1)

\* C13: Enter on the PlaylistList page with no playlists sends no play
\* command and leaves page, selection, snapshot and exit flag as they were.
C13_EnterOnEmptyIsNoOp ==
    [][(KeyHandled({"Enter"}, "PlaylistList") /\ playlists = <<>>)
         => /\ calls' = <<>>
            /\ HandlerReturned
            /\ UNCHANGED <<current_page, selected, spotify_player, exit>>]_vars

C13_Witness ==
    /\ app_pc = "timer"
    /\ key_event = Some("Enter")
    /\ playlists = <<>>
    /\ current_page = "PlaylistList"

\* C14: Enter with a selection on the PlaylistList page sends exactly one play
\* command, for the playlist at the selection index, and sets the page to
\* NowPlaying whether the command succeeded or failed; exit flag and snapshot
\* are not changed.
C14_EnterPlaysSelection ==
    [][(KeyHandled({"Enter"}, "PlaylistList") /\ selected.t = "some")
         => /\ Len(calls') = 1
            /\ calls'[1].op = "play_playlist"
            /\ selected.v + 1 \in DOMAIN playlists
            /\ calls'[1].arg = PlaylistId(playlists[selected.v + 1].id)
            /\ current_page' = "NowPlaying"
            /\ HandlerReturned
            /\ UNCHANGED <<exit, spotify_player, selected>>]_vars

C14_Witness ==
    /\ app_pc = "timer"
    /\ key_event = Some("Enter")
    /\ current_page = "NowPlaying"
    /\ Len(calls) = 1
    /\ calls[1].op = "play_playlist"
    /\ calls[1].out.t = "err"
    /\ selected.t = "some" /\ selected.v > 0

\* C15: Esc or 'p' on the NowPlaying page sets the page to PlaylistList and
\* nothing else: no remote call, selection, playlists, snapshot and exit flag
\* unchanged; the selection does not change while the page is NowPlaying.
C15_BackWithoutSideEffects ==
    [][/\ KeyHandled({"Esc", "p"}, "NowPlaying")
            => /\ current_page' = "PlaylistList"
               /\ calls' = <<>>
               /\ HandlerReturned
               /\ UNCHANGED <<selected, playlists, spotify_player, exit>>
       /\ current_page = "NowPlaying" => selected' = selected]_vars

C15_Witness ==
    /\ app_pc = "timer"
    /\ key_event \in {Some("Esc"), Some("p")}
    /\ current_page = "PlaylistList"
    /\ selected.t = "some" /\ selected.v > 0

\* The step in which Left or Right is handled on the NowPlaying page
SkipHandled == KeyHandled({"Left", "Right"}, "NowPlaying")

\* C16 as stated: when the skip command of Left/Right succeeds, the snapshot
\* held when the handler returns is the one fetched after the command.
C16_AsStated ==
    [][(SkipHandled /\ calls'[1].out.t = "ok")
         => /\ Len(calls') = 2
            /\ calls'[2].op = "get_current_playback"
            /\ calls'[2].out.t = "ok"
            /\ spotify_player' = calls'[2].out.v]_vars

\* C16: when the skip command of Left/Right succeeds, the snapshot is fetched
\* again inside the same key handler; if that fetch succeeds the snapshot held
\* when the handler returns is the fetched one, and if it fails the snapshot
\* is the one held before.
C16_ImmediateRefresh ==
    [][(SkipHandled /\ calls'[1].out.t = "ok")
         => /\ Len(calls') = 2
            /\ calls'[1].op = "skip_track"
            /\ calls'[2].op = "get_current_playback"
            /\ HandlerReturned
            /\ calls'[2].out.t = "ok" => spotify_player' = calls'[2].out.v
            /\ calls'[2].out.t = "err" => spotify_player' = spotify_player]_vars

C16_Witness ==
    /\ app_pc = "timer"
    /\ key_event = Some("Right")
    /\ Len(calls) = 2
    /\ calls[1].out.t = "ok"
    /\ calls[2].out.t = "ok"
    /\ spotify_player = calls[2].out.v
    /\ track_name(spotify_player) # current_track_name

\* C17: when the skip command of Left/Right fails (transport error or
\* non-success status), the page stays NowPlaying, the snapshot is unchanged,
\* the exit flag is not set and the iteration goes on.
C17_FailedSkipHarmless ==
    [][(SkipHandled /\ calls'[1].out.t = "err")
         => /\ Len(calls') = 1
            /\ calls'[1].op = "skip_track"
            /\ current_page' = "NowPlaying"
            /\ spotify_player' = spotify_player
            /\ exit' = exit
            /\ HandlerReturned]_vars

C17_Witness ==
    /\ app_pc = "timer"
    /\ key_event = Some("Left")
    /\ Len(calls) = 1
    /\ calls[1].out.t = "err"
    /\ spotify_player # SpotifyPlayer_default

\* The snapshots one complete response can give
Snapshot(is_playing, item, progress_ms) ==
    [is_playing |-> is_playing, item |-> item, progress_ms |-> progress_ms]

CompleteSnapshots ==
    {Snapshot(FALSE, None, None),
     Snapshot(TRUE, Some([name |-> "A"]), Some(1000)),
     Snapshot(FALSE, Some([name |-> "B"]), Some(2000))}

\* The step that makes the timer-driven poll
PollMade == app_pc = "timer" /\ elapsed >= update_interval

PollHandled ==
    PollMade
      => /\ Len(calls') = 1
         /\ calls'[1].op = "get_current_playback"
         /\ calls'[1].out.t = "ok" => spotify_player' = calls'[1].out.v
         /\ calls'[1].out.t = "err" => spotify_player' = spotify_player
         /\ app_pc' = "loop"
         /\ exit' = exit

\* C18: a successful timer-driven poll replaces the snapshot with the fetched
\* one as a whole, a failed poll leaves the snapshot as it was and does not
\* stop the loop, and the snapshot is always the default or one complete
\* response.
C18_PollResultHandling ==
    [](spotify_player \in CompleteSnapshots) /\ [][PollHandled]_vars

C18_Witness ==
    /\ app_pc = "loop"
    /\ Len(calls) = 1
    /\ calls[1].op = "get_current_playback"
    /\ calls[1].out.t = "err"
    /\ spotify_player = Snapshot(TRUE, Some([name |-> "A"]), Some(1000))

\* What decoding the body of a response gives when it is a player object
DecodedBody(body) ==
    IF body = PlayerBody(TRUE, JTrack("A"), JNum(1000))
    THEN Snapshot(TRUE, Some([name |-> "A"]), Some(1000))
    ELSE IF body = PlayerBody(FALSE, JTrack("B"), JNum(2000))
    THEN Snapshot(FALSE, Some([name |-> "B"]), Some(2000))
    ELSE Snapshot(FALSE, None, None)

StatusMapped(c) ==
    IF c.res.kind = "transport_error" THEN c.out.t = "err"
    ELSE /\ c.res.status = 204 => c.out = Ok(Snapshot(FALSE, None, None))
         /\ c.res.status \notin 200..299 => c.out.t = "err"
         /\ (c.out.t = "ok" /\ c.res.status # 204) =>
               /\ c.res.status \in 200..299
               /\ c.res.body \in PlayerBodies
               /\ c.out.v = DecodedBody(c.res.body)
         /\ (c.res.status \in 200..299 /\ c.res.status # 204
             /\ c.res.body \in PlayerBodies) => c.out.t = "ok"

\* C19: get_current_playback returns the default snapshot as a success for
\* status 204, a failure for every other non-success status, and the decoded
\* snapshot only for a success status other than 204.
C19_StatusMapping ==
    \A i \in DOMAIN calls :
        calls[i].op = "get_current_playback" => StatusMapped(calls[i])

C19_Witness ==
    /\ app_pc = "loop"
    /\ Len(calls) = 1
    /\ calls[1].op = "get_current_playback"
    /\ calls[1].res = Response(204, Empty)
    /\ calls[1].out.t = "ok"
    /\ spotify_player = SpotifyPlayer_default
    /\ current_track_name = None

ExitStep ==
    /\ (app_pc = "events" /\ key_event' = Some("q") /\ HandlerReturned) => exit'
    /\ exit => exit'
    /\ exit => key_event' = key_event
    /\ (exit /\ app_pc = "timer") => app_pc' = "loop"
    /\ (exit /\ app_pc = "loop") => app_pc' = "returned"
    /\ (~exit /\ exit') => (key_event' = Some("q") /\ calls' = <<>>)

\* C20: 'q' on either page sets the exit flag; the flag is never cleared; the
\* iteration that set it runs to its end and the loop then returns without
\* another iteration; no key is dispatched after the one that set the flag;
\* only a 'q' key press sets the flag, never a remote failure.
C20_Exit ==
    [](exit => app_pc \in {"timer", "loop", "returned"}) /\ [][ExitStep]_vars

C20_Witness ==
    /\ app_pc = "returned"
    /\ exit
    /\ key_event = Some("q")
    /\ current_page = "NowPlaying"

(***************************************************************************)
(* Further properties of the credential lifecycle                          *)
(***************************************************************************)
\* The refresh request was answered with a success status and a complete
\* record, and the call has returned an access token.
RefreshedAndReturned ==
    /\ refresh_response # None
    /\ refresh_response.v.kind = "response"
    /\ Success(refresh_response.v.status)
    /\ refresh_response.v.body \in TokenBodies
    /\ pc = "done"
    /\ result.t = "ok"

\* Field k as the merge rule defines it: the response's value when the
\* response has one, the old record's otherwise.
NewIfPresentElseOld(response, old, k) ==
    IF k \in DOMAIN response.o /\ response.o[k] # JNull
    THEN response.o[k]
    ELSE FieldOf(old, k)

\* C24: after a successful refresh the persisted record takes each field from
\* the response when the response has it and from the old record otherwise;
\* a new refresh token in the response is the one persisted.
C24_MergeRule ==
    RefreshedAndReturned =>
        /\ token_file.kind = "text"
        /\ \A i \in 1..NFields :
              FieldOf(token_file.text, FieldOrder[i])
                  = NewIfPresentElseOld(refresh_response.v.body,
                                        file_before.text, FieldOrder[i])

\* The loop has taken a callback request that carries no code.
CallbackWithoutCode == \E i \in CallbacksHandled : CodesOf(handled[i]) = {}

\* C25: when the callback request carries no code the attempt stops
\* listening and fails with an error: no exchange request is sent, nothing is
\* written, the file is as it was and no access token is returned.
C25_CallbackWithoutCode ==
    CallbackWithoutCode =>
        /\ pc = "done"
        /\ result.t = "err"
        /\ server = "closed"
        /\ auth_result = Some(result)
        /\ exchange_requests = <<>>
        /\ writes = 0
        /\ pending = None
        /\ token_file = file_before

C25_Witness ==
    /\ CallbackWithoutCode
    /\ pc = "done"
    /\ result = Err("authorization code not found")
    /\ responses = 1
    /\ Len(handled) = 2

\* Files that exist and cannot be read, or are no credential record
UnusableFiles ==
    {Unreadable, Text(Garbage), Text(Empty), Text(ErrorBody),
     Text(Truncated(BodyWithRefresh("T1", JStr("R1")), 2))}

\* Files that hold a credential record without refresh token
FilesWithoutRefreshToken ==
    {Text(BodyWithRefresh("T1", JNull)), Text(BodyWithoutRefresh("T1"))}

\* C26: with a credential file that cannot be read or parsed the call returns
\* an error, sends no refresh request, starts no authorization and leaves the
\* file as it is; with a record that has no refresh token it sends no refresh
\* request and goes through full authorization.
C26_UnreadableStoredRecord ==
    /\ file_before \in UnusableFiles =>
          /\ pc \in {"idle", "done", "stopped"}
          /\ pc = "done" => result.t = "err"
          /\ refresh_requests = <<>>
          /\ browser_opens = 0
          /\ server = "none"
          /\ auth_result = None
          /\ writes = 0
          /\ token_file = file_before
    /\ file_before \in FilesWithoutRefreshToken =>
          /\ refresh_requests = <<>>
          /\ refresh_response = None
          /\ pc \notin {"idle", "stopped"} => pc = "authorize" \/ browser_opens = 1
          /\ pc = "done" => auth_result # None

C26_Witness ==
    /\ file_before = Text(Truncated(BodyWithRefresh("T1", JStr("R1")), 2))
    /\ pc = "done"
    /\ result = Err("parse")
    /\ token_file = file_before

(***************************************************************************)
(* Further properties of the session                                       *)
(***************************************************************************)
\* In this iteration a Left/Right key was handled, its skip command
\* succeeded and the snapshot was fetched again; the timer check is next.
SkipRefetchedThisIteration ==
    /\ app_pc = "timer"
    /\ key_event \in {Some("Left"), Some("Right")}
    /\ Len(calls) = 2
    /\ calls[1].op = "skip_track"
    /\ calls[2].op = "get_current_playback"
    /\ calls[2].out.t = "ok"

\* C23: in an iteration in which a skip command succeeded and re-fetched the
\* snapshot, no timer-driven poll is issued and the snapshot the command set
\* is still the cached one when the iteration ends.
C23_RefetchSupersedesTimer ==
    [][SkipRefetchedThisIteration
         => (calls' = <<>> /\ spotify_player' = spotify_player)]_vars

\* The variables a key handler of the session controller can write
HandlerFrame == <<current_page, selected, playlists, spotify_player, exit>>

Issued(op) == \E i \in DOMAIN calls' : calls'[i].op = op

PageSpecificStep ==
    /\ (app_pc = "events" /\ current_page = "PlaylistList") => ~Issued("skip_track")
    /\ KeyHandled({"Esc", "p", "Left", "Right"}, "PlaylistList")
          => (calls' = <<>> /\ HandlerReturned /\ UNCHANGED HandlerFrame)
    /\ (app_pc = "events" /\ current_page = "NowPlaying") => ~Issued("play_playlist")
    /\ current_page = "NowPlaying" => selected' = selected
    /\ KeyHandled({"Up", "Down", "k", "j", "Enter"}, "NowPlaying")
          => (calls' = <<>> /\ HandlerReturned /\ UNCHANGED HandlerFrame)
    /\ current_page' # current_page
          => \/ /\ KeyHandled({"Enter"}, "PlaylistList")
                /\ selected.t = "some"
                /\ current_page' = "NowPlaying"
             \/ /\ KeyHandled({"Esc", "p"}, "NowPlaying")
                /\ current_page' = "PlaylistList"

\* C27: on the PlaylistList page no skip command is issued and Esc, 'p',
\* Left and Right change nothing; on the NowPlaying page no play command is
\* issued, the selection is never changed and Up, Down, 'k', 'j' and Enter
\* change nothing; the page changes only by Enter with a selection and by
\* Esc/'p', never by a poll or a skip.
C27_PageSpecificKeys == [][PageSpecificStep]_vars

C27_Witness ==
    /\ app_pc = "timer"
    /\ current_page = "NowPlaying"
    /\ key_event = Some("Enter")
    /\ calls = <<>>
    /\ selected = Some(1)

TimerStep ==
    /\ app_pc = "loop" => calls' = <<>>
    /\ app_pc = "timer"
          => /\ Len(calls') <= 1
             /\ app_pc' = "loop"
             /\ calls' # <<>>
                   => /\ calls'[1].op = "get_current_playback"
                      /\ elapsed >= update_interval
                      /\ since_poll >= update_interval
                      /\ elapsed' = 0
    /\ app_pc = "events" => (elapsed' >= elapsed /\ since_poll' >= since_poll)

\* C28: an iteration issues at most one timer-driven snapshot fetch, in its
\* timer check after the key dispatch; the timer is reset by every poll,
\* failed or successful, and a timer-driven fetch is issued only when a full
\* interval has passed since the one before.
C28_NoImmediateRetry == [][TimerStep]_vars

C28_Witness ==
    /\ app_pc = "loop"
    /\ ~exit
    /\ Len(calls) = 1
    /\ calls[1].op = "get_current_playback"
    /\ calls[1].out.t = "err"
    /\ elapsed = 0
    /\ since_poll = 0

(***************************************************************************)
(* Properties of the album art, src/main.rs                                *)
(***************************************************************************)
\* The step that makes a timer-driven poll whose fetch succeeds
PollSucceeds == PollMade /\ calls'[1].out.t = "ok"

\* The snapshot a successful poll fetched
Fetched == calls'[1].out.v

\* C21: a successful poll whose snapshot has the cached track identity leaves
\* the cached track identity and the cached cover art as they were and
\* downloads no image.
C21_NoSpuriousInvalidation ==
    [][(PollSucceeds /\ track_name(Fetched) = current_track_name)
         => /\ current_track_name' = current_track_name
            /\ album_art_image' = album_art_image
            /\ Len(calls') = 1
            /\ spotify_player' = Fetched]_vars

C21_Witness ==
    /\ app_pc = "loop"
    /\ Len(calls) = 1
    /\ calls[1].op = "get_current_playback"
    /\ calls[1].out.t = "ok"
    /\ current_track_name = Some("A")
    /\ track_name(spotify_player) = current_track_name
    /\ album_art_image = Some(DynamicImage("a.jpg"))
    /\ since_poll = 0

\* The cover art the new snapshot calls for: the downloaded image of its
\* track, absent without track, without image or when the download failed.
ArtOfNewTrack ==
    IF Len(calls') = 2 /\ calls'[2].op = "download_image" /\ calls'[2].out.t = "ok"
    THEN Some(calls'[2].out.v)
    ELSE None

\* C22: after a successful poll whose track identity differs from the cached
\* one the cached cover art is the new track's art, or absent when the new
\* snapshot has no track or no image or the download failed.
C22_InvalidationOnTrackChange ==
    [][(PollSucceeds /\ track_name(Fetched) # current_track_name)
         => album_art_image' = ArtOfNewTrack]_vars

====
